---- MODULE Spec2Model ----
(***************************************************************************)
(* Model of backend/model.py: the AuditModel class.                        *)
(*                                                                         *)
(*   - load_model: lazy loading of tokenizer and model (lines 20-48)       *)
(*   - analyze: load on demand, generate, interpret the generated text     *)
(*     (lines 50-110)                                                      *)
(*                                                                         *)
(* A Python str is a sequence of one-character strings.  String literals   *)
(* of the program are kept as one piece (a one-element sequence).          *)
(* Indices are 0-based, as in Python.                                      *)
(***************************************************************************)
EXTENDS Integers, Sequences

\* ------------------------------------------------------------------ bounds

\* Longest generated text explored by SpecInterp.
MaxLen == 7

\* Calls each thread makes on the instance.
MaxCalls == 3

\* ---------------------------------------------------------------- alphabet

LB == "{"
RB == "}"
QUOTE == "\""
COLON == ":"
SPACE == " "

\* The characters generated texts are drawn from.
Alphabet == {LB, RB, QUOTE, COLON, SPACE}

\* Every text of at most n characters.
TextsUpTo(n) == UNION {[1..k -> Alphabet] : k \in 0..n}

Texts == TextsUpTo(MaxLen)

\* ------------------------------------------------------------- Python str

IsWhitespace(c) == c = SPACE

\* s[i:i+1]: the character at 0-based index i, "" past the end.
CharAt(s, i) == IF i >= 0 /\ i < Len(s) THEN s[i + 1] ELSE ""

\* str.find(c): lowest 0-based index of c, -1 when absent.
Find(s, c) ==
  IF \E i \in 1..Len(s) : s[i] = c
  THEN (CHOOSE i \in 1..Len(s) : s[i] = c /\ \A j \in 1..(i - 1) : s[j] # c) - 1
  ELSE -1

\* str.rfind(c): highest 0-based index of c, -1 when absent.
RFind_first(s, c) == Find(s, c)
RFind(s, c) ==
  IF \E i \in 1..Len(s) : s[i] = c
  THEN (CHOOSE i \in 1..Len(s) : s[i] = c /\ \A j \in (i + 1)..Len(s) : s[j] # c) - 1
  ELSE -1

\* s[a:b] for a >= 0 and b >= 0: empty when b <= a.
Slice(s, a, b) ==
  LET hi == IF b < Len(s) THEN b ELSE Len(s)
  IN  IF hi <= a THEN <<>> ELSE SubSeq(s, a + 1, hi)

\* str.strip(): leading and trailing whitespace removed.
Strip(s) ==
  IF \A i \in 1..Len(s) : IsWhitespace(s[i])
  THEN <<>>
  ELSE LET a == CHOOSE i \in 1..Len(s) :
                  ~IsWhitespace(s[i]) /\ \A j \in 1..(i - 1) : IsWhitespace(s[j])
           b == CHOOSE i \in 1..Len(s) :
                  ~IsWhitespace(s[i]) /\ \A j \in (i + 1)..Len(s) : IsWhitespace(s[j])
       IN  SubSeq(s, a, b)

\* ---------------------------------------------------------- Python values

NoneVal == [kind |-> "None", str |-> <<>>, items |-> <<>>]
StrVal(s) == [kind |-> "str", str |-> s, items |-> <<>>]
\* A dict: its (key, value) pairs in insertion order.
DictVal(items) == [kind |-> "dict", str |-> <<>>, items |-> items]

\* --------------------------------------------------------------- json.loads
\* json.loads on a str over Alphabet: whitespace, strings and objects are
\* what these characters can spell.  Every failure is a JSONDecodeError.

ParseOk(v, e) == [ok |-> TRUE, val |-> v, end |-> e]
ParseFail == [ok |-> FALSE, val |-> NoneVal, end |-> 0]

\* WHITESPACE.match(s, i).end()
RECURSIVE SkipWs(_, _)
SkipWs(s, i) == IF IsWhitespace(CharAt(s, i)) THEN SkipWs(s, i + 1) ELSE i

\* scanstring(s, end), end just past the opening quote.
ScanString(s, end) ==
  IF \E j \in end..(Len(s) - 1) : CharAt(s, j) = QUOTE
  THEN LET close == CHOOSE j \in end..(Len(s) - 1) :
                      CharAt(s, j) = QUOTE
                      /\ \A k \in end..(j - 1) : CharAt(s, k) # QUOTE
       IN  ParseOk(StrVal(Slice(s, end, close)), close + 1)
  ELSE ParseFail

RECURSIVE ScanOnce(_, _)
RECURSIVE JSONObject(_, _)

\* JSONObject((s, end), ...), end just past the opening brace.
JSONObject(s, end) ==
  LET e1 == SkipWs(s, end)
  IN  IF CharAt(s, e1) = RB THEN ParseOk(DictVal(<<>>), e1 + 1)
      ELSE IF CharAt(s, e1) # QUOTE THEN ParseFail
      ELSE LET key == ScanString(s, e1 + 1)
           IN  IF ~key.ok THEN ParseFail
               ELSE LET e2 == SkipWs(s, key.end)
                    IN  IF CharAt(s, e2) # COLON THEN ParseFail
                        ELSE LET value == ScanOnce(s, SkipWs(s, e2 + 1))
                             IN  IF ~value.ok THEN ParseFail
                                 ELSE LET e3 == SkipWs(s, value.end)
                                      IN  IF CharAt(s, e3) = RB
                                          THEN ParseOk(DictVal(<<<<key.val.str, value.val>>>>),
                                                       e3 + 1)
                                          ELSE ParseFail

\* scan_once(s, idx)
ScanOnce(s, idx) ==
  LET nextchar == CharAt(s, idx)
  IN  IF nextchar = QUOTE THEN ScanString(s, idx + 1)
      ELSE IF nextchar = LB THEN JSONObject(s, idx + 1)
      ELSE ParseFail

\* json.loads(s): the value, or the exception raised.
json_loads(s) ==
  LET r == ScanOnce(s, SkipWs(s, 0))
  IN  IF r.ok /\ SkipWs(s, r.end) = Len(s)
      THEN [exc |-> "none", val |-> r.val]
      ELSE [exc |-> "JSONDecodeError", val |-> NoneVal]

\* ------------------------------------------------- analyze: interpretation

LabelKey == <<"label">>
ExplanationKey == <<"explanation">>
AnalysisGenerated == <<"Analysis Generated">>
ParsingError == <<"Parsing Error">>
RawOutputPrefix == <<"Could not parse model output as JSON. Raw output: ">>

ResultDict(label, explanation) ==
  DictVal(<< <<LabelKey, StrVal(label)>>, <<ExplanationKey, StrVal(explanation)>> >>)

\* start_idx = generated_text.find('{')
StartIdx(generated_text) == Find(generated_text, LB)

\* end_idx = generated_text.rfind('}') + 1
EndIdx_noPlusOne(generated_text) == RFind(generated_text, RB)
EndIdx(generated_text) == RFind(generated_text, RB) + 1

\* if start_idx != -1 and end_idx != -1
SpanFound(start_idx, end_idx) == start_idx # -1 /\ end_idx # -1

\* except json.JSONDecodeError
Caught_KeyError(exc) == exc = "KeyError"
Caught(exc) == exc = "JSONDecodeError"

\* The explanation of the fallback result.
FallbackExplanation_raw(generated_text) == generated_text
FallbackExplanation(generated_text) == Strip(generated_text)

\* The explanation of the "Parsing Error" result.
ErrorExplanation_stripped(generated_text) == RawOutputPrefix \o Strip(generated_text)
ErrorExplanation(generated_text) == RawOutputPrefix \o generated_text

\* The try block of analyze on a generated text: the return statement
\* reached (line), whether json.loads was called, and the returned value;
\* line 0 when an exception leaves analyze.
Interpretation(generated_text) ==
  LET start_idx == StartIdx(generated_text)
      end_idx == EndIdx(generated_text)
  IN  IF SpanFound(start_idx, end_idx)
      THEN LET json_str == Slice(generated_text, start_idx, end_idx)
               r == json_loads(json_str)
           IN  IF r.exc = "none"
               THEN [line |-> 99, parsed |-> TRUE, json_str |-> json_str, value |-> r.val]
               ELSE IF Caught(r.exc)
               THEN [line |-> 107, parsed |-> TRUE, json_str |-> json_str,
                     value |-> ResultDict(ParsingError, ErrorExplanation(generated_text))]
               ELSE [line |-> 0, parsed |-> TRUE, json_str |-> json_str, value |-> NoneVal]
      ELSE [line |-> 102, parsed |-> FALSE, json_str |-> <<>>,
            value |-> ResultDict(AnalysisGenerated, FallbackExplanation(generated_text))]

\* ------------------------------------------------------------------ state

Threads == {"T1", "T2"}
MainThread == "T1"

\* Texts the generation step produces in Spec: one per return statement.
SampleTexts == {<<LB, RB>>, <<COLON, SPACE>>, <<LB, COLON>>}

VARIABLES
  model,          \* self.model: 0 is None, n the handle of the n-th model loaded
  tokenizer,      \* self.tokenizer: 0 is None, n the n-th tokenizer loaded
  onDevice,       \* the model handles moved to self.device
  pc,             \* per thread: the source line it is about to execute
  caller,         \* per thread: the public method its current call entered
  calls,          \* per thread: calls made so far
  generated_text, \* per thread: output[0]['generated_text'] of the current call
  genModel,       \* per thread: the model handle the pipeline of this call ran on
  result,         \* per thread: the value the current call returned
  retLine,        \* per thread: the return statement reached (0: none)
  parseTried,     \* per thread: json.loads was called in this call
  attempts,       \* per thread: times this call entered the try block of load_model
  sawUnloaded,    \* per thread: this call found self.model None at line 21
  callLoads,      \* per thread: models this call loaded
  failStep,       \* per thread: the step of load_model that raised in this call
  loads,          \* models loaded so far
  tokLoads,       \* tokenizers loaded so far
  everFailed      \* some load step has raised

vars == <<model, tokenizer, onDevice, pc, caller, calls, generated_text, genModel,
          result, retLine, parseTried, attempts, sawUnloaded, callLoads, failStep,
          loads, tokLoads, everFailed>>

shared == <<model, tokenizer, onDevice, loads, tokLoads, everFailed>>
interp == <<generated_text, genModel, result, retLine, parseTried>>
loadHist == <<attempts, sawUnloaded, callLoads, failStep>>

Idle(t) == pc[t] \in {"idle", "returned", "raised"}

\* __init__ (lines 9-12): nothing is loaded.
Init ==
  /\ model = 0
  /\ tokenizer = 0
  /\ onDevice = {}
  /\ pc = [t \in Threads |-> "idle"]
  /\ caller = [t \in Threads |-> "none"]
  /\ calls = [t \in Threads |-> 0]
  /\ generated_text = [t \in Threads |-> <<>>]
  /\ genModel = [t \in Threads |-> 0]
  /\ result = [t \in Threads |-> NoneVal]
  /\ retLine = [t \in Threads |-> 0]
  /\ parseTried = [t \in Threads |-> FALSE]
  /\ attempts = [t \in Threads |-> 0]
  /\ sawUnloaded = [t \in Threads |-> FALSE]
  /\ callLoads = [t \in Threads |-> 0]
  /\ failStep = [t \in Threads |-> "none"]
  /\ loads = 0
  /\ tokLoads = 0
  /\ everFailed = FALSE

\* A new call starts with a fresh frame.
NewFrame(t, method, line) ==
  /\ calls' = [calls EXCEPT ![t] = @ + 1]
  /\ caller' = [caller EXCEPT ![t] = method]
  /\ pc' = [pc EXCEPT ![t] = line]
  /\ generated_text' = [generated_text EXCEPT ![t] = <<>>]
  /\ genModel' = [genModel EXCEPT ![t] = 0]
  /\ result' = [result EXCEPT ![t] = NoneVal]
  /\ retLine' = [retLine EXCEPT ![t] = 0]
  /\ parseTried' = [parseTried EXCEPT ![t] = FALSE]
  /\ attempts' = [attempts EXCEPT ![t] = 0]
  /\ sawUnloaded' = [sawUnloaded EXCEPT ![t] = FALSE]
  /\ callLoads' = [callLoads EXCEPT ![t] = 0]
  /\ failStep' = [failStep EXCEPT ![t] = "none"]
  /\ UNCHANGED shared

\* A caller invokes audit_model.analyze(metrics).
CallAnalyze(t) ==
  /\ Idle(t)
  /\ calls[t] < MaxCalls
  /\ NewFrame(t, "analyze", "a51")

\* A caller invokes audit_model.load_model().
CallLoadModel(t) ==
  /\ Idle(t)
  /\ calls[t] < MaxCalls
  /\ NewFrame(t, "load_model", "l21")

\* Where load_model returns to: line 54 of analyze, or its own caller.
AfterLoad(t) == IF caller[t] = "analyze" THEN "a75" ELSE "returned"

\* except Exception as e: ... raise e (lines 46-48); analyze has no handler.
OnLoadError_swallow(t) == AfterLoad(t)
OnLoadError(t) == "raised"

\* if self.model is None (line 51) / if self.model is not None (line 21)
IsLoaded_never == FALSE
IsLoaded == model # 0

\* Whether a thread at line 21 that finds the model unloaded goes on to load.
MayEnterLoad_locked(t) ==
  ~IsLoaded /\ \A u \in Threads \ {t} : pc[u] \notin {"l26", "l37", "l43"}
MayEnterLoad(t) == ~IsLoaded

\* analyze, line 51-52.
AnalyzeCheck(t) ==
  /\ pc[t] = "a51"
  /\ pc' = [pc EXCEPT ![t] = IF IsLoaded THEN "a75" ELSE "l21"]
  /\ UNCHANGED <<shared, interp, loadHist, caller, calls>>

\* load_model, lines 21-22: return when already loaded.
LoadSkip(t) ==
  /\ pc[t] = "l21"
  /\ IsLoaded
  /\ pc' = [pc EXCEPT ![t] = AfterLoad(t)]
  /\ UNCHANGED <<shared, interp, loadHist, caller, calls>>

\* load_model, lines 21-25: not loaded, enter the try block.
LoadEnter(t) ==
  /\ pc[t] = "l21"
  /\ MayEnterLoad(t)
  /\ pc' = [pc EXCEPT ![t] = "l26"]
  /\ attempts' = [attempts EXCEPT ![t] = @ + 1]
  /\ sawUnloaded' = [sawUnloaded EXCEPT ![t] = TRUE]
  /\ UNCHANGED <<shared, interp, callLoads, failStep, caller, calls>>

\* A step of the try block raises: lines 46-48.
Raise(t, step) ==
  /\ pc' = [pc EXCEPT ![t] = OnLoadError(t)]
  /\ failStep' = [failStep EXCEPT ![t] = step]
  /\ everFailed' = TRUE

\* line 26: self.tokenizer = AutoTokenizer.from_pretrained(...)
LoadTokenizer(t) ==
  /\ pc[t] = "l26"
  /\ \E ok \in BOOLEAN :
       IF ok
       THEN /\ tokenizer' = tokLoads + 1
            /\ tokLoads' = tokLoads + 1
            /\ pc' = [pc EXCEPT ![t] = "l37"]
            /\ UNCHANGED <<failStep, everFailed>>
       ELSE /\ Raise(t, "tokenizer")
            /\ UNCHANGED <<tokenizer, tokLoads>>
  /\ UNCHANGED <<model, onDevice, loads, interp, attempts, sawUnloaded, callLoads,
                 caller, calls>>

\* line 37: self.model = AutoModelForCausalLM.from_pretrained(...)
LoadModel(t) ==
  /\ pc[t] = "l37"
  /\ \E ok \in BOOLEAN :
       IF ok
       THEN /\ model' = loads + 1
            /\ loads' = loads + 1
            /\ callLoads' = [callLoads EXCEPT ![t] = @ + 1]
            /\ pc' = [pc EXCEPT ![t] = "l43"]
            /\ UNCHANGED <<failStep, everFailed>>
       ELSE /\ Raise(t, "model")
            /\ UNCHANGED <<model, loads, callLoads>>
  /\ UNCHANGED <<tokenizer, onDevice, tokLoads, interp, attempts, sawUnloaded,
                 caller, calls>>

\* lines 42-45: self.model.to(self.device); self.device is never empty.
MoveToDevice(t) ==
  /\ pc[t] = "l43"
  /\ \E ok \in BOOLEAN :
       IF ok
       THEN /\ onDevice' = onDevice \cup {model}
            /\ pc' = [pc EXCEPT ![t] = AfterLoad(t)]
            /\ UNCHANGED <<failStep, everFailed>>
       ELSE /\ Raise(t, "to")
            /\ UNCHANGED onDevice
  /\ UNCHANGED <<model, tokenizer, loads, tokLoads, interp, attempts, sawUnloaded,
                 callLoads, caller, calls>>

\* lines 54-90: build the prompt, run the pipeline on self.model.
Generate(t) ==
  /\ pc[t] = "a75"
  /\ \E text \in SampleTexts : generated_text' = [generated_text EXCEPT ![t] = text]
  /\ genModel' = [genModel EXCEPT ![t] = model]
  /\ pc' = [pc EXCEPT ![t] = "a93"]
  /\ UNCHANGED <<shared, result, retLine, parseTried, loadHist, caller, calls>>

\* lines 93-110: interpret the generated text.
Interpret(t) ==
  /\ pc[t] = "a93"
  /\ \E i \in {Interpretation(generated_text[t])} :
         /\ result' = [result EXCEPT ![t] = i.value]
         /\ retLine' = [retLine EXCEPT ![t] = i.line]
         /\ parseTried' = [parseTried EXCEPT ![t] = i.parsed]
         /\ pc' = [pc EXCEPT ![t] = IF i.line = 0 THEN "raised" ELSE "returned"]
  /\ UNCHANGED <<shared, generated_text, genModel, loadHist, caller, calls>>

Next ==
  \E t \in Threads :
    \/ CallAnalyze(t)
    \/ CallLoadModel(t)
    \/ AnalyzeCheck(t)
    \/ LoadSkip(t)
    \/ LoadEnter(t)
    \/ LoadTokenizer(t)
    \/ LoadModel(t)
    \/ MoveToDevice(t)
    \/ Generate(t)
    \/ Interpret(t)

\* Concurrent use: any interleaving of the threads' steps.
Spec == Init /\ [][Next]_vars

\* Sequential use: one thread makes all the calls.
NextSeq ==
  \/ CallAnalyze(MainThread)
  \/ CallLoadModel(MainThread)
  \/ AnalyzeCheck(MainThread)
  \/ LoadSkip(MainThread)
  \/ LoadEnter(MainThread)
  \/ LoadTokenizer(MainThread)
  \/ LoadModel(MainThread)
  \/ MoveToDevice(MainThread)
  \/ Generate(MainThread)
  \/ Interpret(MainThread)

SpecSeq == Init /\ [][NextSeq]_vars

\* The interpretation step alone: a loaded instance whose generation step
\* has produced a text, any text over Alphabet of at most MaxLen characters.
InitInterp ==
  /\ model = 1
  /\ tokenizer = 1
  /\ onDevice = {1}
  /\ loads = 1
  /\ tokLoads = 1
  /\ everFailed = FALSE
  /\ pc = [t \in Threads |-> IF t = MainThread THEN "a93" ELSE "idle"]
  /\ caller = [t \in Threads |-> IF t = MainThread THEN "analyze" ELSE "none"]
  /\ calls = [t \in Threads |-> IF t = MainThread THEN 1 ELSE 0]
  /\ \E text \in Texts :
       generated_text = [t \in Threads |-> IF t = MainThread THEN text ELSE <<>>]
  /\ genModel = [t \in Threads |-> IF t = MainThread THEN 1 ELSE 0]
  /\ result = [t \in Threads |-> NoneVal]
  /\ retLine = [t \in Threads |-> 0]
  /\ parseTried = [t \in Threads |-> FALSE]
  /\ attempts = [t \in Threads |-> 0]
  /\ sawUnloaded = [t \in Threads |-> FALSE]
  /\ callLoads = [t \in Threads |-> 0]
  /\ failStep = [t \in Threads |-> "none"]

NextInterp == Interpret(MainThread)

SpecInterp == InitInterp /\ [][NextInterp]_vars

\* ------------------------------------------------ vocabulary of the claims
\* What the claims speak of, stated without the program's operators: the
\* first '{' and the last '}' of a text, whitespace trimming, and the JSON
\* grammar (RFC 8259) over Alphabet with the value a text denotes.

Positions(s, c) == {i \in 1..Len(s) : s[i] = c}
MinOf(S) == CHOOSE i \in S : \A j \in S : i <= j
MaxOf(S) == CHOOSE i \in S : \A j \in S : j <= i

HasOpen(s) == Positions(s, LB) # {}
\* A '}' stands after the first '{'.
HasSpan(s) ==
  /\ HasOpen(s)
  /\ Positions(s, RB) # {}
  /\ MinOf(Positions(s, LB)) < MaxOf(Positions(s, RB))
\* From the first '{' to the last '}', both included.
Span(s) == SubSeq(s, MinOf(Positions(s, LB)), MaxOf(Positions(s, RB)))

AllWs(s) == \A i \in 1..Len(s) : s[i] = SPACE

\* e is s with its leading and trailing whitespace removed.
IsTrimOf(e, s) ==
  /\ Len(e) <= Len(s)
  /\ e = <<>> \/ (e[1] # SPACE /\ e[Len(e)] # SPACE)
  /\ \E i \in 0..(Len(s) - Len(e)) :
       /\ AllWs(SubSeq(s, 1, i))
       /\ SubSeq(s, i + 1, i + Len(e)) = e
       /\ AllWs(SubSeq(s, i + Len(e) + 1, Len(s)))

Unpadded(s) ==
  LET nonWs == {i \in 1..Len(s) : s[i] # SPACE}
  IN  IF nonWs = {} THEN <<>> ELSE SubSeq(s, MinOf(nonWs), MaxOf(nonWs))

\* string = quotation-mark *char quotation-mark
IsStringText(s) ==
  /\ Len(s) >= 2
  /\ s[1] = QUOTE
  /\ s[Len(s)] = QUOTE
  /\ \A i \in 2..(Len(s) - 1) : s[i] # QUOTE

RECURSIVE IsObjectText(_)
RECURSIVE ObjectOf(_)

\* value = string / object
IsValueText(s) == IsStringText(s) \/ IsObjectText(s)

\* member = ws string ws ":" ws value ws: the positions of its colon.
MemberColons(b) ==
  {c \in Positions(b, COLON) :
     /\ IsStringText(Unpadded(SubSeq(b, 1, c - 1)))
     /\ IsValueText(Unpadded(SubSeq(b, c + 1, Len(b))))}

\* object = "{" ws "}" / "{" member "}"
IsObjectText(s) ==
  /\ Len(s) >= 2
  /\ s[1] = LB
  /\ s[Len(s)] = RB
  /\ LET b == SubSeq(s, 2, Len(s) - 1)
     IN  AllWs(b) \/ MemberColons(b) # {}

StringOf(s) == SubSeq(s, 2, Len(s) - 1)
ValueOf(s) == IF IsStringText(s) THEN StrVal(StringOf(s)) ELSE ObjectOf(s)

\* The dict a well-formed object text denotes.
ObjectOf(s) ==
  LET b == SubSeq(s, 2, Len(s) - 1)
  IN  IF AllWs(b) THEN DictVal(<<>>)
      ELSE LET c == CHOOSE c \in MemberColons(b) : TRUE
           IN  DictVal(<< <<StringOf(Unpadded(SubSeq(b, 1, c - 1))),
                            ValueOf(Unpadded(SubSeq(b, c + 1, Len(b))))>> >>)

\* ------------------------------------------------------------------ claims

\* The interpretation step of t's analyze call has ended.
Finished(t) ==
  /\ caller[t] = "analyze"
  /\ genModel[t] # 0
  /\ pc[t] \in {"returned", "raised"}

FallbackResult(t) ==
  /\ retLine[t] = 102
  /\ result[t].kind = "dict"
  /\ Len(result[t].items) = 2
  /\ result[t].items[1] = <<LabelKey, StrVal(AnalysisGenerated)>>
  /\ result[t].items[2][1] = ExplanationKey
  /\ result[t].items[2][2].kind = "str"
  /\ IsTrimOf(result[t].items[2][2].str, generated_text[t])

ParsingErrorResult(t) ==
  /\ retLine[t] = 107
  /\ result[t] = ResultDict(ParsingError, RawOutputPrefix \o generated_text[t])

\* C1: when the substring from the first '{' to the last '}' is a
\* well-formed JSON object, analyze returns exactly the dict that object
\* denotes, whatever its keys (the empty dict for "{}") and whatever text
\* surrounds the span.
C1_ParsedObjectReturned ==
  \A t \in Threads :
    (Finished(t) /\ HasSpan(generated_text[t]) /\ IsObjectText(Span(generated_text[t])))
      => /\ pc[t] = "returned"
         /\ retLine[t] = 99
         /\ result[t] = ObjectOf(Span(generated_text[t]))

\* An empty object, with text before and after it, came back as the empty dict.
C1_Witness ==
  \E t \in Threads :
    /\ Finished(t)
    /\ HasSpan(generated_text[t])
    /\ IsObjectText(Span(generated_text[t]))
    /\ generated_text[t][1] # LB
    /\ generated_text[t][Len(generated_text[t])] # RB
    /\ result[t] = DictVal(<<>>)

\* C2: a text without '{' gives label "Analysis Generated" and the trimmed
\* text as explanation, and json.loads is not called.
C2_NoOpenBraceFallback ==
  \A t \in Threads :
    (Finished(t) /\ ~HasOpen(generated_text[t]))
      => /\ pc[t] = "returned"
         /\ FallbackResult(t)
         /\ ~parseTried[t]

\* A text with a '}' but no '{', padded with whitespace on both sides.
C2_Witness ==
  \E t \in Threads :
    /\ Finished(t)
    /\ ~HasOpen(generated_text[t])
    /\ Positions(generated_text[t], RB) # {}
    /\ Len(generated_text[t]) >= 3
    /\ generated_text[t][1] = SPACE
    /\ generated_text[t][Len(generated_text[t])] = SPACE
    /\ FallbackResult(t)

\* C3: a text with a '{' but no '}' after it gives the "Analysis Generated"
\* fallback, not the "Parsing Error" result.
C3_NoCloseBraceFallback ==
  \A t \in Threads :
    (Finished(t) /\ HasOpen(generated_text[t]) /\ ~HasSpan(generated_text[t]))
      => FallbackResult(t)

C5_InterpretationNeverRaises ==
  \A t \in Threads :
    Finished(t)
      => /\ pc[t] = "returned"
         /\ retLine[t] \in {99, 102, 107}
         /\ result[t].kind = "dict"
         /\ retLine[t] = 102 => FallbackResult(t)
         /\ (parseTried[t] /\ ~(HasSpan(generated_text[t])
                                /\ IsObjectText(Span(generated_text[t]))))
              => ParsingErrorResult(t)

\* json.loads failed on a span that has both braces, and the call returned.
C5_Witness ==
  \E t \in Threads :
    /\ Finished(t)
    /\ parseTried[t]
    /\ HasSpan(generated_text[t])
    /\ ~IsObjectText(Span(generated_text[t]))
    /\ pc[t] = "returned"
    /\ ParsingErrorResult(t)

\* A well-formed object stands in s with a '{' before it and a '}' after it.
ObjectBetweenBraces(s) ==
  \E i \in 1..Len(s) : \E j \in i..Len(s) :
    /\ IsObjectText(SubSeq(s, i, j))
    /\ \E k \in 1..(i - 1) : s[k] = LB
    /\ \E k \in (j + 1)..Len(s) : s[k] = RB

\* The first '{' opens a well-formed object that closes before the last '}'.
FirstObjectClosesEarly(s) ==
  /\ HasSpan(s)
  /\ \E j \in 1..(Len(Span(s)) - 1) : IsObjectText(SubSeq(Span(s), 1, j))

PastLoad(t) ==
  \/ pc[t] \in {"a75", "a93"}
  \/ pc[t] = "returned"
  \/ pc[t] = "raised" /\ failStep[t] = "none"

\* C6: when a load step raises during an analyze call, the call raises to
\* its caller: nothing is generated, nothing is returned, and the try block
\* of load_model was entered exactly once.
C6_LoadFailureReraised ==
  \A t \in Threads :
    (caller[t] = "analyze" /\ failStep[t] # "none")
      => /\ pc[t] = "raised"
         /\ genModel[t] = 0
         /\ generated_text[t] = <<>>
         /\ result[t] = NoneVal
         /\ retLine[t] = 0
         /\ attempts[t] = 1

\* An analyze call on an unloaded instance ended by a failed model load.
C6_Witness ==
  \E t \in Threads :
    /\ caller[t] = "analyze"
    /\ sawUnloaded[t]
    /\ failStep[t] = "model"
    /\ pc[t] = "raised"

\* C7: nothing guards the initialisation check.  A thread at line 21 that
\* finds the model unloaded may enter the load whatever the other threads
\* are doing, and every thread that found it unloaded and came out of
\* load_model has loaded a model of its own; so two threads that both
\* find it unloaded load it twice.
C7_UnguardedInitialisation ==
  \A t \in Threads :
    /\ (pc[t] = "l21" /\ model = 0) => ENABLED LoadEnter(t)
    /\ (sawUnloaded[t] /\ failStep[t] = "none" /\ (pc[t] = "l43" \/ PastLoad(t)))
         => callLoads[t] = 1

\* Both threads, each in its first call, found the model unloaded and each
\* loaded it: two loads, no failure.
C7_Witness ==
  /\ \A t \in Threads : calls[t] = 1 /\ sawUnloaded[t] /\ callLoads[t] = 1
  /\ loads = 2
  /\ ~everFailed

\* C9: in sequential use without load failures the model and the tokenizer
\* are loaded at most once; once loaded the handles stay, a later call
\* enters no load, and every generation runs on that one model.
C9_LoadedAtMostOnce ==
  ~everFailed
    => /\ loads <= 1
       /\ tokLoads <= 1
       /\ model = loads
       /\ tokenizer <= tokLoads
       /\ model = 1 => tokenizer = 1
       /\ \A t \in Threads :
            /\ genModel[t] # 0 => (genModel[t] = 1 /\ model = 1)
            /\ (calls[t] >= 1 /\ PastLoad(t)) => (model = 1 /\ tokenizer = 1)
            /\ (calls[t] >= 2 /\ loads = 1 /\ ~sawUnloaded[t])
                 => (attempts[t] = 0 /\ callLoads[t] = 0)

\* The third call, an analyze, found the model loaded and generated on it.
C9_Witness ==
  /\ ~everFailed
  /\ calls[MainThread] = 3
  /\ caller[MainThread] = "analyze"
  /\ pc[MainThread] = "returned"
  /\ ~sawUnloaded[MainThread]
  /\ genModel[MainThread] = 1
  /\ loads = 1

\* C10: whenever load_model has raised, self.model is still None, and no
\* generation runs on a model whose load did not complete.
C10_FailedLoadLeavesModelUnset ==
  \A t \in Threads :
    /\ (failStep[t] # "none" /\ pc[t] = "raised") => model = 0
    /\ genModel[t] # 0 => genModel[t] \in onDevice

====
